---- MODULE Spec2Model ----
(***************************************************************************)
(* Model of app.py, the media downloader front end: URL classification,   *)
(* the extractor command with its certificate retry, entry flattening,    *)
(* download-option selection and the /api/download request lifecycle.     *)
(*                                                                         *)
(* Text.  A Python str is modelled as a sequence of lexical tokens (TLA+   *)
(* strings); the str is the concatenation of its tokens.  Whitespace and   *)
(* the delimiters the code looks for ("://", "/", ":", "@", ".") are       *)
(* tokens of their own, so strip, lower, split, endswith and `in` are      *)
(* computed on the token sequence the way Python computes them on the      *)
(* characters.  "" is the empty sequence.                                  *)
(***************************************************************************)
EXTENDS Integers, Sequences, FiniteSets, TLC

VARIABLES
    url, platform, upc,                                  \* detect_platform
    cmd, calls, proc, cpc,                               \* run_yt_dlp_command
    info, flat, lpc,                                     \* flatten_entries
    item, has_ffmpeg, options, selector_map, picked, fpc,\* build_download_options
    debug, req, fs, issued                               \* /api/download

urlVars  == <<url, platform, upc>>
cmdVars  == <<cmd, calls, proc, cpc>>
flatVars == <<info, flat, lpc>>
fmtVars  == <<item, has_ffmpeg, options, selector_map, picked, fpc>>
dlVars   == <<debug, req, fs, issued>>
vars     == <<urlVars, cmdVars, flatVars, fmtVars, dlVars>>

None == "None"

(***************************************************************************)
(* str helpers                                                             *)
(***************************************************************************)
Range(s) == {s[i] : i \in DOMAIN s}

\* str.strip(): leading and trailing whitespace removed.
IsSpace(t) == t \in {" ", "\t", "\n"}

RECURSIVE LStrip(_)
LStrip(s) == IF s # <<>> /\ IsSpace(Head(s)) THEN LStrip(Tail(s)) ELSE s

RECURSIVE RStrip(_)
RStrip(s) ==
    IF s # <<>> /\ IsSpace(s[Len(s)]) THEN RStrip(SubSeq(s, 1, Len(s) - 1)) ELSE s

Strip(s) == RStrip(LStrip(s))

\* str.lower() on one token: the tokens of the model that carry upper case.
LowerToken(t) ==
    CASE t = "HTTPS" -> "https"
      [] t = "HTTP" -> "http"
      [] t = "Instagram" -> "instagram"
      [] t = "YOUTUBE" -> "youtube"
      [] t = "COM" -> "com"
      [] t = "CERTIFICATE_VERIFY_FAILED" -> "certificate_verify_failed"
      [] t = "Unable" -> "unable"
      [] t = "Certificate" -> "certificate"
      [] t = "ERROR" -> "error"
      [] t = "SSL" -> "ssl"
      [] OTHER -> t

Lower(s) == [i \in DOMAIN s |-> LowerToken(s[i])]

\* s.endswith(suffix)
EndsWith(s, suffix) ==
    /\ Len(suffix) <= Len(s)
    /\ SubSeq(s, Len(s) - Len(suffix) + 1, Len(s)) = suffix

\* needle in s
Contains(s, needle) ==
    \E i \in 0..(Len(s) - Len(needle)) : SubSeq(s, i + 1, i + Len(needle)) = needle

\* Index of the first token of s that lies in set D, or Len(s) + 1.
RECURSIVE FirstIn(_, _, _)
FirstIn(s, D, i) ==
    IF i > Len(s) THEN Len(s) + 1
    ELSE IF s[i] \in D THEN i
    ELSE FirstIn(s, D, i + 1)

\* s.split(sep)[0]
SplitFirst(s, sep) == SubSeq(s, 1, FirstIn(s, {sep}, 1) - 1)

(***************************************************************************)
(* URL classifier                                                          *)
(***************************************************************************)
SUPPORTED_PLATFORMS ==
    << [platform |-> "Instagram", domains |-> << <<"instagram", ".", "com">> >>],
       [platform |-> "YouTube",
        domains |-> << <<"youtube", ".", "com">>, <<"youtu", ".", "be">> >>],
       [platform |-> "Facebook",
        domains |-> << <<"facebook", ".", "com">>, <<"fb", ".", "watch">> >>],
       [platform |-> "Loom", domains |-> << <<"loom", ".", "com">> >>] >>

\* urllib.parse.urlparse: [ok, scheme, netloc, path].  The scheme is what
\* precedes "://" (lowercased), the netloc runs to the next "/", "?" or "#";
\* a netloc with one bracket but not the other raises ValueError (ok = FALSE).
UrlParse(u) ==
    LET hasScheme == Len(u) >= 2 /\ u[2] = "://"
        rest      == IF hasScheme THEN SubSeq(u, 3, Len(u)) ELSE <<>>
        cut       == FirstIn(rest, {"/", "?", "#"}, 1)
        netloc    == SubSeq(rest, 1, cut - 1)
        path      == IF hasScheme THEN SubSeq(rest, cut, Len(rest)) ELSE u
    IN  [ok     |-> ("[" \in Range(netloc)) = ("]" \in Range(netloc)),
         scheme |-> IF hasScheme THEN LowerToken(u[1]) ELSE "",
         netloc |-> netloc,
         path   |-> path]

\* parse_web_url: None (a record with none = TRUE), or (parsed, host).
NoParse == [none |-> TRUE, path |-> <<>>, host |-> <<>>]

parse_web_url(u) ==
    IF u = <<>> THEN NoParse
    ELSE LET parsed == UrlParse(Strip(u))
             host   == SplitFirst(Lower(parsed.netloc), ":")
         IN  IF ~parsed.ok THEN NoParse
             ELSE IF parsed.scheme \notin {"http", "https"} \/ host = <<>> THEN NoParse
             ELSE [none |-> FALSE, path |-> parsed.path, host |-> host]

host_matches(host, root_domain) ==
    host = root_domain \/ EndsWith(host, <<".">> \o root_domain)

\* The first platform, in table order from index i, with a matching domain.
RECURSIVE FirstPlatform(_, _)
FirstPlatform(host, i) ==
    IF i > Len(SUPPORTED_PLATFORMS) THEN None
    ELSE LET p == SUPPORTED_PLATFORMS[i]
         IN  IF \E d \in Range(p.domains) : host_matches(host, d)
             THEN p.platform
             ELSE FirstPlatform(host, i + 1)

detect_platform(u) ==
    LET parsed_host == parse_web_url(u)
    IN  IF parsed_host.none THEN None ELSE FirstPlatform(parsed_host.host, 1)

(***************************************************************************)
(* Extractor command and certificate retry                                 *)
(***************************************************************************)
\* One argv element holding the single token t.
Arg(t) == <<t>>

NO_CHECK_CERTIFICATES == Arg("--no-check-certificates")

\* yt_dlp_base_args, with cookies_file the stripped YTDLP_COOKIES_FILE.
yt_dlp_base_args(cookies_file) ==
    <<Arg("yt-dlp"), Arg("--no-warnings")>>
        \o (IF cookies_file # <<>> THEN <<Arg("--cookies"), cookies_file>> ELSE <<>>)

\* Mutant: the match made case-sensitive.
is_certificate_verify_error_cased(message) ==
    \/ Contains(message, <<"certificate_verify_failed">>)
    \/ Contains(message, <<"unable", " ", "to", " ", "get", " ", "local", " ",
                           "issuer", " ", "certificate">>)

is_certificate_verify_error(message) ==
    LET text == Lower(message)
    IN  \/ Contains(text, <<"certificate_verify_failed">>)
        \/ Contains(text, <<"unable", " ", "to", " ", "get", " ", "local", " ",
                            "issuer", " ", "certificate">>)

\* (proc.stderr or proc.stdout or default).strip()
FailureText(p, default) ==
    Strip(IF p.stderr # <<>> THEN p.stderr
          ELSE IF p.stdout # <<>> THEN p.stdout
          ELSE default)

\* list.insert(1, x)
Insert1(c, x) == <<Head(c)>> \o <<x>> \o Tail(c)

\* run_yt_dlp_command.  subprocess.run is the environment: first and second
\* are what the extractor answers to the first and to the second invocation.
\* Returns the CompletedProcess handed back and the invocations made.
run_yt_dlp_command(c, first, second) ==
    IF first.returncode = 0
    THEN [proc |-> first, calls |-> <<[cmd |-> c, result |-> first]>>]
    ELSE LET message   == FailureText(first, <<"yt-dlp", " ", "failed">>)
             retry_cmd == Insert1(c, NO_CHECK_CERTIFICATES)
         IN  IF NO_CHECK_CERTIFICATES \notin Range(c)
                    /\ is_certificate_verify_error(message)
             THEN [proc  |-> second,
                   calls |-> <<[cmd |-> c, result |-> first],
                               [cmd |-> retry_cmd, result |-> second]>>]
             ELSE [proc |-> first, calls |-> <<[cmd |-> c, result |-> first]>>]

\* Command line of run_yt_dlp_json.
JsonCmd(cookies_file, u) ==
    yt_dlp_base_args(cookies_file)
        \o <<Arg("--dump-single-json"), Arg("--skip-download"), u>>

\* Command line of run_download.  index is an integer or -1 for None.
DownloadCmd(cookies_file, u, item_count, index, output_dir, format_selector) ==
    yt_dlp_base_args(cookies_file)
        \o <<Arg("--restrict-filenames"), Arg("-P"), Arg(ToString(output_dir)),
             Arg("-o"), Arg("%(title).80s.%(ext)s")>>
        \o (IF format_selector # <<>> THEN <<Arg("-f"), format_selector>> ELSE <<>>)
        \o (IF item_count > 1 /\ index # -1
            THEN <<Arg("--playlist-items"), Arg(ToString(index))>>
            ELSE IF item_count <= 1 THEN <<Arg("--no-playlist")>> ELSE <<>>)
        \o <<u>>

(***************************************************************************)
(* Entry flattener.  A metadata dict is a record holding the keys that are *)
(* present; {} is the empty record and None is NoneItem.                   *)
(***************************************************************************)
NoneItem == [none |-> TRUE]

\* Python truthiness of a dict-or-None.
Truthy(d) == d # NoneItem /\ DOMAIN d # {}

\* d.get(k), with `absent` standing for the None that .get returns.
Get(d, k, absent) == IF k \in DOMAIN d THEN d[k] ELSE absent

\* [x for x in s if x]
RECURSIVE KeepTruthy(_)
KeepTruthy(s) ==
    IF s = <<>> THEN <<>>
    ELSE (IF Truthy(Head(s)) THEN <<Head(s)>> ELSE <<>>) \o KeepTruthy(Tail(s))

\* The loop of flatten_entries over the direct entries.
RECURSIVE FlattenLoop(_)
FlattenLoop(es) ==
    IF es = <<>> THEN <<>>
    ELSE LET entry  == Head(es)
             nested == IF Truthy(entry) THEN Get(entry, "entries", <<>>) ELSE <<>>
         IN  (IF ~Truthy(entry) THEN <<>>
              ELSE IF nested # <<>> THEN KeepTruthy(nested)
              ELSE <<entry>>) \o FlattenLoop(Tail(es))

\* Mutant: the fallback to [info] on an empty result dropped.
flatten_entries_no_fallback(root) ==
    LET es == Get(root, "entries", <<>>)
    IN  IF es = <<>> THEN <<root>> ELSE FlattenLoop(es)

flatten_entries(root) ==
    LET es == Get(root, "entries", <<>>)
    IN  IF es = <<>> THEN <<root>>
        ELSE LET out == FlattenLoop(es)
             IN  IF out # <<>> THEN out ELSE <<root>>

(***************************************************************************)
(* Format selector.  A format is a record of the keys present in the raw   *)
(* dict: format_id is text; vcodec, acodec and ext are single tokens;      *)
(* height, tbr, fps and abr are integers.  Scores are kept in thousandths  *)
(* (tbr * 1000 + fps) so that tbr + fps / 1000 stays an integer.           *)
(***************************************************************************)
VIDEO_LIMIT == 5
AUDIO_LIMIT == 5

BEST == <<"best">>

\* s[:n]
Take(s, n) == SubSeq(s, 1, IF Len(s) < n THEN Len(s) ELSE n)

\* str(fmt.get("format_id") or "").strip()
FormatId(fmt) == Strip(Get(fmt, "format_id", <<>>))

\* str(fmt.get(k) or "none") for the codec keys
Codec(fmt, k) == LET c == Get(fmt, k, "") IN IF c = "" THEN "none" ELSE c

\* str.upper() on the extension tokens of the model
UpperToken(t) ==
    CASE t = "mp4" -> "MP4"
      [] t = "webm" -> "WEBM"
      [] t = "m4a" -> "M4A"
      [] OTHER -> t

\* 1000 * format_score(fmt)
format_score(fmt) == Get(fmt, "tbr", 0) * 1000 + Get(fmt, "fps", 0)

\* isinstance(fmt, dict)
IsDict(fmt) == fmt # NoneItem

\* First loop: [video_by_height, audio_candidates] after the formats fs,
\* starting from acc.
RECURSIVE Partition(_, _)
Partition(fmts, acc) ==
    IF fmts = <<>> THEN acc
    ELSE LET fmt == Head(fmts)
             rest == Tail(fmts)
         IN  IF ~IsDict(fmt) \/ FormatId(fmt) = <<>> THEN Partition(rest, acc)
             ELSE
               LET vcodec == Codec(fmt, "vcodec")
                   acodec == Codec(fmt, "acodec")
                   height == Get(fmt, "height", 0)
                   vbh    == acc.video_by_height
                   keep   == /\ vcodec # "none"
                             /\ height > 0
                             /\ \/ height \notin DOMAIN vbh
                                \/ format_score(fmt) > format_score(vbh[height])
                   vbh2   == IF keep
                             THEN [h \in DOMAIN vbh \cup {height} |->
                                       IF h = height THEN fmt ELSE vbh[h]]
                             ELSE vbh
                   aud2   == IF vcodec = "none" /\ acodec # "none"
                             THEN Append(acc.audio_candidates, fmt)
                             ELSE acc.audio_candidates
               IN  Partition(rest, [video_by_height |-> vbh2, audio_candidates |-> aud2])

\* Mutant: the heights sorted ascending.
RECURSIVE SortedAsc(_)
SortedAsc(S) ==
    IF S = {} THEN <<>>
    ELSE LET m == CHOOSE x \in S : \A y \in S : x <= y
         IN  <<m>> \o SortedAsc(S \ {m})

\* sorted(S, reverse=True)
RECURSIVE SortedDesc(_)
SortedDesc(S) ==
    IF S = {} THEN <<>>
    ELSE LET m == CHOOSE x \in S : \A y \in S : y <= x
         IN  <<m>> \o SortedDesc(S \ {m})

\* One step of list.sort(key=format_score, reverse=True): x goes behind every
\* element whose score is at least its own (the sort is stable).
RECURSIVE InsertByScore(_, _)
InsertByScore(sorted, x) ==
    IF sorted = <<>> THEN <<x>>
    ELSE IF format_score(Head(sorted)) >= format_score(x)
         THEN <<Head(sorted)>> \o InsertByScore(Tail(sorted), x)
         ELSE <<x>> \o sorted

RECURSIVE SortByScoreDesc(_, _)
SortByScoreDesc(todo, sorted) ==
    IF todo = <<>> THEN sorted
    ELSE SortByScoreDesc(Tail(todo), InsertByScore(sorted, Head(todo)))

\* ", ".join(parts)
RECURSIVE Join(_)
Join(parts) ==
    IF parts = <<>> THEN <<>>
    ELSE IF Len(parts) = 1 THEN <<Head(parts)>>
    ELSE <<Head(parts), ", ">> \o Join(Tail(parts))

\* Mutant: a video-only format never merged with audio.
VideoSelectorNoMerge(fmt, has_post) == FormatId(fmt)

\* Selector and label of the video option for fmt at the given height.
VideoSelector(fmt, has_post) ==
    IF Codec(fmt, "acodec") = "none" /\ has_post
    THEN FormatId(fmt) \o <<"+bestaudio/best">>
    ELSE FormatId(fmt)

VideoLabel(fmt, height, has_post) ==
    LET ext          == UpperToken(Get(fmt, "ext", ""))
        has_audio    == Codec(fmt, "acodec") # "none"
        base         == <<"Video ", ToString(height), "p">>
                          \o (IF ~has_audio /\ has_post THEN <<" + audio">> ELSE <<>>)
        suffix_parts == (IF ~has_audio /\ ~has_post THEN <<"video-only">> ELSE <<>>)
                          \o (IF ext # "" THEN <<ext>> ELSE <<>>)
    IN  base \o (IF suffix_parts # <<>>
                 THEN <<" (">> \o Join(suffix_parts) \o <<")">>
                 ELSE <<>>)

AudioLabel(fmt) ==
    LET abr == Get(fmt, "abr", 0)
        ext == UpperToken(Get(fmt, "ext", ""))
    IN  <<"Audio">>
          \o (IF abr # 0 THEN <<" ", ToString(abr), " kbps">> ELSE <<>>)
          \o (IF ext # "" THEN <<" (", ext, ")">> ELSE <<>>)

\* dict[key] = value
Put(m, key, value) == [k \in DOMAIN m \cup {key} |-> IF k = key THEN value ELSE m[k]]

\* Appends one option to the accumulator; picked records, next to each
\* option, the format it was made from (instrumentation, not program state).
Emit(acc, fmt, label, mode, selector) ==
    [options      |-> Append(acc.options,
                             [value |-> FormatId(fmt), label |-> label, mode |-> mode]),
     selector_map |-> Put(acc.selector_map, FormatId(fmt), selector),
     seen_values  |-> acc.seen_values \cup {FormatId(fmt)},
     picked       |-> Append(acc.picked, fmt)]

\* Second loop, over the selected heights.
RECURSIVE VideoLoop(_, _, _, _)
VideoLoop(heights, vbh, has_post, acc) ==
    IF heights = <<>> THEN acc
    ELSE LET height == Head(heights)
             fmt    == vbh[height]
         IN  IF FormatId(fmt) = <<>> \/ FormatId(fmt) \in acc.seen_values
             THEN VideoLoop(Tail(heights), vbh, has_post, acc)
             ELSE VideoLoop(Tail(heights), vbh, has_post,
                            Emit(acc, fmt, VideoLabel(fmt, height, has_post), "video",
                                 VideoSelector(fmt, has_post)))

\* Mutant: the audio loop without the seen_values test.
RECURSIVE AudioLoopNoSeen(_, _)
AudioLoopNoSeen(cands, acc) ==
    IF cands = <<>> THEN acc
    ELSE LET fmt == Head(cands)
         IN  AudioLoopNoSeen(Tail(cands),
                             Emit(acc, fmt, AudioLabel(fmt), "audio", FormatId(fmt)))

\* Third loop, over the selected audio candidates.
RECURSIVE AudioLoop(_, _)
AudioLoop(cands, acc) ==
    IF cands = <<>> THEN acc
    ELSE LET fmt == Head(cands)
         IN  IF FormatId(fmt) = <<>> \/ FormatId(fmt) \in acc.seen_values
             THEN AudioLoop(Tail(cands), acc)
             ELSE AudioLoop(Tail(cands),
                            Emit(acc, fmt, AudioLabel(fmt), "audio", FormatId(fmt)))

BestSource == [best |-> TRUE]

build_download_options(it, has_post) ==
    LET start == [options      |-> <<[value |-> BEST, label |-> <<"Best available">>,
                                      mode |-> "auto"]>>,
                  selector_map |-> Put(<<>>, BEST,
                                       IF has_post THEN <<"bestvideo*+bestaudio/best">>
                                       ELSE <<"best">>),
                  seen_values  |-> {BEST},
                  picked       |-> <<BestSource>>]
    IN  IF "formats" \notin DOMAIN it THEN start
        ELSE LET parts == Partition(it.formats,
                                    [video_by_height |-> <<>>, audio_candidates |-> <<>>])
                 vbh   == parts.video_by_height
                 top   == Take(SortedDesc(DOMAIN vbh), VIDEO_LIMIT)
                 acc1  == VideoLoop(top, vbh, has_post, start)
                 auds  == Take(SortByScoreDesc(parts.audio_candidates, <<>>), AUDIO_LIMIT)
             IN  AudioLoop(auds, acc1)

(***************************************************************************)
(* Specification SpecUrl: detect_platform applied to bounded URLs.         *)
(***************************************************************************)
MaxSubLabels == 1

NoProc == [returncode |-> -1, stderr |-> <<>>, stdout |-> <<>>]

UrlIdle  == url = <<>> /\ platform = None /\ upc = "idle"
CmdIdle  == cmd = <<>> /\ calls = <<>> /\ proc = NoProc /\ cpc = "idle"
FlatIdle == info = NoneItem /\ flat = <<>> /\ lpc = "idle"
FmtIdle  == /\ item = NoneItem /\ has_ffmpeg = FALSE /\ options = <<>>
            /\ selector_map = <<>> /\ picked = <<>> /\ fpc = "idle"
DlIdle   == debug = FALSE /\ req = <<>> /\ fs = <<>> /\ issued = {}

Schemes == { <<"https", "://">>, <<"http", "://">>, <<"HTTPS", "://">>,
             <<"ftp", "://">>, <<>> }

UserInfos == { <<>>, <<"user", "@">>, <<"user", ":", "pw", "@">>,
               <<"youtube", ".", "com", ":", "pw", "@">> }

BaseHosts ==
    { <<"instagram", ".", "com">>, <<"youtube", ".", "com">>, <<"youtu", ".", "be">>,
      <<"facebook", ".", "com">>, <<"fb", ".", "watch">>, <<"loom", ".", "com">>,
      <<"Instagram", ".", "COM">>, <<"evil", ".", "example">>,
      <<"not", "instagram", ".", "com">>,
      <<"instagram", ".", "com", ".", "evil", ".", "example">>,
      <<"com">>, <<>>, <<"[", "::1">> }

RECURSIVE SubPrefixes(_)
SubPrefixes(n) ==
    IF n = 0 THEN {<<>>}
    ELSE LET shorter == SubPrefixes(n - 1)
         IN  shorter \cup {<<l, ".">> \o q : l \in {"www", "m"}, q \in shorter}

Ports == { <<>>, <<":", "8080">> }
Paths == { <<>>, <<"/", "p", "/", "x">> }
Pads  == { <<>>, <<" ">> }

Urls ==
    { pad \o sch \o ui \o sub \o host \o port \o path \o pad :
        pad \in Pads, sch \in Schemes, ui \in UserInfos,
        sub \in SubPrefixes(MaxSubLabels), host \in BaseHosts,
        port \in Ports, path \in Paths }

InitUrl ==
    /\ url \in Urls
    /\ platform = None
    /\ upc = "ready"
    /\ CmdIdle /\ FlatIdle /\ FmtIdle /\ DlIdle

Classify ==
    /\ upc = "ready"
    /\ platform' = detect_platform(url)
    /\ upc' = "done"
    /\ UNCHANGED <<url, cmdVars, flatVars, fmtVars, dlVars>>

NextUrl == Classify

SpecUrl == InitUrl /\ [][NextUrl]_vars

(***************************************************************************)
(* Specification SpecCmd: one call of run_yt_dlp_command.                  *)
(***************************************************************************)
Messages ==
    { <<>>,
      <<"ERROR", ":", " ", "[", "SSL", ":", " ", "CERTIFICATE_VERIFY_FAILED", "]", "\n">>,
      <<"certificate_verify_failed">>,
      <<"Unable", " ", "to", " ", "get", " ", "local", " ", "issuer", " ", "Certificate">>,
      <<"unable", " ", "to", " ", "get", " ", "certificate">>,
      <<"ERROR", ":", " ", "unsupported", " ", "url">>,
      <<" ">> }

Stdouts == { <<>>, <<"{doc}", "1">>, <<"certificate_verify_failed">> }

ProcResults ==
    [returncode : {0, 1}, stderr : Messages, stdout : Stdouts]

CookieFiles == { <<>>, <<"cookies.txt">> }

GoodUrl == <<"https", "://", "www", ".", "youtube", ".", "com", "/", "watch">>

Cmds ==
    { JsonCmd(c, GoodUrl) : c \in CookieFiles }
      \cup { DownloadCmd(c, GoodUrl, n, i, 1, sel) :
                c \in CookieFiles, n \in {1, 2}, i \in {-1, 1},
                sel \in { <<"best">>, <<"137", "+bestaudio/best">> } }

InitCmd ==
    /\ cmd \in Cmds
    /\ calls = <<>>
    /\ proc = NoProc
    /\ cpc = "ready"
    /\ UrlIdle /\ FlatIdle /\ FmtIdle /\ DlIdle

CallCommand ==
    /\ cpc = "ready"
    /\ \E first \in ProcResults, second \in ProcResults :
          LET out == run_yt_dlp_command(cmd, first, second)
          IN  proc' = out.proc /\ calls' = out.calls
    /\ cpc' = "returned"
    /\ UNCHANGED <<cmd, urlVars, flatVars, fmtVars, dlVars>>

NextCmd == CallCommand

SpecCmd == InitCmd /\ [][NextCmd]_vars

(***************************************************************************)
(* Specification SpecFlatten: flatten_entries applied to bounded trees.    *)
(***************************************************************************)
MaxEntries == 2

Leaf(i) == [id |-> i]

InnerLists ==
    { <<>>, <<NoneItem>>, << <<>> >>, <<Leaf(11)>>, <<Leaf(11), NoneItem>>,
      <<Leaf(11), Leaf(12)>>, <<[id |-> 13, entries |-> <<Leaf(21)>>]>> }

DirectEntries ==
    { NoneItem, <<>>, Leaf(1), Leaf(2) }
      \cup { [id |-> 3, entries |-> inner] : inner \in InnerLists }
      \cup { [entries |-> <<>>] }

RECURSIVE SeqsUpTo(_, _)
SeqsUpTo(S, n) ==
    IF n = 0 THEN {<<>>}
    ELSE LET shorter == SeqsUpTo(S, n - 1)
         IN  shorter \cup {Append(q, x) : q \in shorter, x \in S}

Roots ==
    { [id |-> 0] } \cup { [id |-> 0, entries |-> es] : es \in SeqsUpTo(DirectEntries, MaxEntries) }

InitFlatten ==
    /\ info \in Roots
    /\ flat = <<>>
    /\ lpc = "ready"
    /\ UrlIdle /\ CmdIdle /\ FmtIdle /\ DlIdle

Flatten ==
    /\ lpc = "ready"
    /\ flat' = flatten_entries(info)
    /\ lpc' = "done"
    /\ UNCHANGED <<info, urlVars, cmdVars, fmtVars, dlVars>>

NextFlatten == Flatten

SpecFlatten == InitFlatten /\ [][NextFlatten]_vars

(***************************************************************************)
(* Specification SpecFormats: build_download_options applied to format     *)
(* lists taken, in order or reversed, from two catalogues.                 *)
(***************************************************************************)
MaxFormats == 12

V(id, acodec, height, tbr, fps, ext) ==
    [format_id |-> id, vcodec |-> "avc1", acodec |-> acodec, height |-> height,
     tbr |-> tbr, fps |-> fps, ext |-> ext]

A(id, tbr, abr, ext) ==
    [format_id |-> id, vcodec |-> "none", acodec |-> "opus", tbr |-> tbr,
     abr |-> abr, ext |-> ext]

\* Six heights and six audio-only formats: more than either limit.
CatalogMain ==
    << V(<<"401">>, "none", 2160, 9000, 60, "mp4"),
       V(<<"400">>, "none", 1440, 6000, 30, "webm"),
       V(<<"137">>, "none", 1080, 4000, 30, ""),
       V(<<"22">>, "mp4a", 720, 1500, 30, "mp4"),
       V(<<" ", "136", " ">>, "none", 720, 1500, 60, "mp4"),
       V(<<"135">>, "mp4a", 480, 800, 30, "mp4"),
       V(<<"18">>, "mp4a", 360, 500, 30, ""),
       A(<<"251">>, 160, 160, "webm"),
       A(<<"140">>, 128, 128, "m4a"),
       A(<<"250">>, 64, 0, ""),
       A(<<"249">>, 48, 48, "webm"),
       A(<<"139">>, 48, 48, "m4a"),
       A(<<"18">>, 200, 0, "m4a") >>

\* Records with keys missing, an empty or blank id, a non-dict entry.
CatalogEdge ==
    << NoneItem,
       [format_id |-> <<"mhtml">>, vcodec |-> "none", acodec |-> "none"],
       [format_id |-> <<"sb0">>, vcodec |-> "mjpeg", ext |-> "mp4"],
       [format_id |-> <<"v0">>, vcodec |-> "avc1", height |-> 0, tbr |-> 10],
       [format_id |-> <<" ">>, vcodec |-> "avc1", acodec |-> "mp4a", height |-> 720,
        tbr |-> 99999],
       [vcodec |-> "avc1", height |-> 1080],
       [format_id |-> <<"a0">>, acodec |-> "mp4a"],
       [format_id |-> <<>>, vcodec |-> "none", acodec |-> "mp4a", tbr |-> 500],
       [format_id |-> <<"22">>, vcodec |-> "vp9", height |-> 240, tbr |-> 300],
       V(<<"22">>, "mp4a", 720, 1500, 30, "mp4"),
       V(<<"23">>, "none", 720, 1500, 30, "webm"),
       A(<<"23">>, 70, 70, "m4a"),
       V(<<"best">>, "mp4a", 480, 800, 30, "mp4") >>

\* The elements of c at the positions in S, in order.
RECURSIVE Pick(_, _, _)
Pick(c, S, i) ==
    IF i > Len(c) THEN <<>>
    ELSE (IF i \in S THEN <<c[i]>> ELSE <<>>) \o Pick(c, S, i + 1)

RECURSIVE Reverse(_)
Reverse(q) == IF q = <<>> THEN <<>> ELSE Append(Reverse(Tail(q)), Head(q))

\* An item carries no formats, or a list of at most MaxFormats formats taken
\* from one catalogue, in catalogue order or reversed.
InitFormats ==
    /\ \/ item = [title |-> "t"]
       \/ \E c \in {CatalogMain, CatalogEdge}, rev \in BOOLEAN :
            \E S \in SUBSET (1..Len(c)) :
               /\ Cardinality(S) <= MaxFormats
               /\ item = [title |-> "t",
                          formats |-> IF rev THEN Reverse(Pick(c, S, 1))
                                      ELSE Pick(c, S, 1)]
    /\ has_ffmpeg \in BOOLEAN
    /\ options = <<>>
    /\ selector_map = <<>>
    /\ picked = <<>>
    /\ fpc = "ready"
    /\ UrlIdle /\ CmdIdle /\ FlatIdle /\ DlIdle

BuildOptions ==
    /\ fpc = "ready"
    /\ \E out \in {build_download_options(item, has_ffmpeg)} :
           /\ options' = out.options
           /\ selector_map' = out.selector_map
           /\ picked' = out.picked
    /\ fpc' = "built"
    /\ UNCHANGED <<item, has_ffmpeg, urlVars, cmdVars, flatVars, dlVars>>

NextFormats == BuildOptions

SpecFormats == InitFormats /\ [][NextFormats]_vars

(***************************************************************************)
(* The /api/download request.  A request walks through the handler; the    *)
(* extractor and the web framework are its environment.  fs maps each      *)
(* directory name under TMP_DIR to whether it exists and the files in it.  *)
(* Python's None is -1 for an index and 0 for a job directory.             *)
(***************************************************************************)
NumRequests == 2
MaxItems == 2

Requests == 1..NumRequests
Dirs     == 1..NumRequests

NoFile   == [dir |-> 0, name |-> <<>>, mtime |-> 0]
EmptyDir == [exists |-> FALSE, files |-> {}]

\* str.isdigit() and int() on the query values of the model: one token that
\* is the decimal text of a number.
IsDigit(raw) == Len(raw) = 1 /\ \E n \in 0..9 : ToString(n) = raw[1]
IntOf(raw)   == CHOOSE n \in 0..9 : ToString(n) = raw[1]

\* Metadata documents the extractor can print, by the token that stands for
\* their JSON text: a single video, and playlists of 1..MaxItems entries
\* whose odd and even entries offer different formats.
EntryItem(i) ==
    [id |-> i,
     formats |-> IF i % 2 = 1
                 THEN <<V(<<"22">>, "mp4a", 720, 1500, 30, "mp4"), A(<<"140">>, 128, 128, "m4a")>>
                 ELSE <<V(<<"137">>, "none", 1080, 4000, 30, "mp4")>>]

DocKeys == {"single", "bare"} \cup { ToString(k) : k \in 1..MaxItems }

Doc(key) ==
    IF key = "single" THEN EntryItem(1)
    ELSE IF key = "bare" THEN [id |-> 9]
    ELSE LET k == CHOOSE n \in 1..MaxItems : ToString(n) = key
         IN  [id |-> 0, entries |-> [i \in 1..k |-> EntryItem(i)]]

\* json.loads(proc.stdout): [ok, value]
JsonLoads(stdout) ==
    IF Len(stdout) = 2 /\ stdout[1] = "{doc}" /\ stdout[2] \in DocKeys
    THEN [ok |-> TRUE, value |-> Doc(stdout[2])]
    ELSE [ok |-> FALSE, value |-> NoneItem]

\* run_yt_dlp_json: [error, info]
run_yt_dlp_json(cookies_file, u, first, second) ==
    LET p == run_yt_dlp_command(JsonCmd(cookies_file, u), first, second).proc
    IN  IF p.returncode # 0 THEN [error |-> TRUE, info |-> NoneItem]
        ELSE IF ~JsonLoads(p.stdout).ok THEN [error |-> TRUE, info |-> NoneItem]
        ELSE [error |-> FALSE, info |-> JsonLoads(p.stdout).value]

\* Lines 405-422: [ok, item_count, format_selector] for the parsed query.
ResolveSelection(entries, index, format_id, ffmpeg) ==
    LET item_count    == Len(entries)
        selected_item == IF item_count > 1 /\ index # -1 /\ index # 0
                         THEN entries[index] ELSE entries[1]
        fid           == IF format_id = <<>> THEN BEST ELSE format_id
        bad           == [ok |-> FALSE, item_count |-> item_count, format_selector |-> <<>>]
    IN  IF item_count > 1 /\ index = -1 THEN bad
        ELSE IF item_count > 1 /\ (index < 1 \/ index > item_count) THEN bad
        ELSE LET map == build_download_options(selected_item, ffmpeg).selector_map
             IN  IF fid \notin DOMAIN map THEN bad
                 ELSE [ok |-> TRUE, item_count |-> item_count, format_selector |-> map[fid]]

\* Mutant: every request given the same directory name.
NewJobDirsFixed(used) == {1}

\* uuid.uuid4(): any name not issued before.
NewJobDirs(used) == Dirs \ used

\* Mutant: partial downloads counted as results.
QualifyingWithPartial(files) == { f \in files : f.is_file }

\* Line 346: the regular files whose name does not end in ".part".
Qualifying(files) == { f \in files : f.is_file /\ ~EndsWith(f.name, <<".part">>) }

\* Lines 350-351: the files that can come first when sorted by mtime, newest first.
MostRecent(files) == { f \in files : \A g \in files : g.mtime <= f.mtime }

NewRequest ==
    [pc |-> "created", url |-> <<>>, index |-> -1, format_id |-> <<>>,
     info |-> NoneItem, item_count |-> 0, format_selector |-> <<>>, job_dir |-> 0, cleanup |-> FALSE,
     proc |-> NoProc, file |-> NoFile, status |-> 0, error |-> "none"]

\* abort(400, ...): the handler ends with an HTTPException.
Abort400(q, kind) == [q EXCEPT !.pc = "finalizing", !.status = 400, !.error = kind]

\* Lines 392-400: the query is read and the URL classified.
Receive(r, U, I, F) ==
    /\ req[r].pc = "created"
    /\ \E u \in U, index_raw \in I, format_id \in F :
          LET q == [req[r] EXCEPT
                      !.url = Strip(u),
                      !.format_id = Strip(format_id),
                      !.index = IF IsDigit(Strip(index_raw))
                                THEN IntOf(Strip(index_raw)) ELSE -1]
          IN  req' = [req EXCEPT ![r] =
                        IF detect_platform(q.url) = None
                        THEN Abort400(q, "HTTPException")
                        ELSE [q EXCEPT !.pc = "fetching"]]
    /\ UNCHANGED <<debug, fs, issued, urlVars, cmdVars, flatVars, fmtVars>>

\* Lines 402-430: metadata is fetched, the selection validated, the job
\* directory created and its cleanup registered.
Fetch(r, P) ==
    /\ req[r].pc = "fetching"
    /\ \E first \in P, second \in P, cookies_file \in CookieFiles, ffmpeg \in BOOLEAN :
          LET q    == req[r]
              meta == run_yt_dlp_json(cookies_file, q.url, first, second)
          IN  IF meta.error
              THEN /\ req' = [req EXCEPT ![r] = Abort400(q, "DownloaderError")]
                   /\ UNCHANGED <<fs, issued>>
              ELSE \E sel \in {ResolveSelection(flatten_entries(meta.info), q.index,
                                                 q.format_id, ffmpeg)} :
                     IF ~sel.ok
                     THEN /\ req' = [req EXCEPT ![r] =
                                       Abort400([q EXCEPT !.info = meta.info,
                                                          !.item_count = sel.item_count],
                                                "HTTPException")]
                          /\ UNCHANGED <<fs, issued>>
                     ELSE \E d \in NewJobDirs(issued) :
                            /\ issued' = issued \cup {d}
                            /\ fs' = [fs EXCEPT ![d].exists = TRUE]
                            /\ req' = [req EXCEPT ![r] =
                                         [q EXCEPT !.pc = "running",
                                                   !.info = meta.info,
                                                   !.item_count = sel.item_count,
                                                   !.format_id = IF q.format_id = <<>>
                                                                 THEN BEST ELSE q.format_id,
                                                   !.format_selector = sel.format_selector,
                                                   !.job_dir = d,
                                                   !.cleanup = TRUE]]
    /\ UNCHANGED <<debug, urlVars, cmdVars, flatVars, fmtVars>>

\* Lines 329-341: the extractor runs, once or twice, and leaves files in the
\* job directory.
RunExtractor(r, P, W) ==
    /\ req[r].pc = "running"
    /\ \E first \in P, second \in P, cookies_file \in CookieFiles, written \in W :
          LET q   == req[r]
              out == run_yt_dlp_command(
                         DownloadCmd(cookies_file, q.url, q.item_count, q.index,
                                     q.job_dir, q.format_selector),
                         first, second)
          IN  /\ req' = [req EXCEPT ![r] = [q EXCEPT !.pc = "locating", !.proc = out.proc]]
              /\ fs' = [fs EXCEPT ![q.job_dir].files =
                           IF fs[q.job_dir].exists THEN @ \cup written ELSE @]
    /\ UNCHANGED <<debug, issued, urlVars, cmdVars, flatVars, fmtVars>>

\* Line 95 when subprocess.run itself raises (OSError, UnicodeDecodeError):
\* an exception that is no DownloaderError leaves the handler.
ExtractorCrash(r) ==
    /\ req[r].pc = "running"
    /\ req' = [req EXCEPT ![r] =
                 [@ EXCEPT !.pc = "finalizing", !.status = 500, !.error = "unhandled"]]
    /\ UNCHANGED <<debug, fs, issued, urlVars, cmdVars, flatVars, fmtVars>>

\* Lines 342-351 and 440-441: the exit code is checked and the newest
\* finished file of the job directory chosen.
Locate(r) ==
    /\ req[r].pc = "locating"
    /\ LET q     == req[r]
           files == Qualifying(fs[q.job_dir].files)
       IN  IF q.proc.returncode # 0 \/ files = {}
           THEN req' = [req EXCEPT ![r] = Abort400(q, "DownloaderError")]
           ELSE \E f \in MostRecent(files) :
                  req' = [req EXCEPT ![r] =
                            [q EXCEPT !.pc = "sending",
                                      !.file = [dir |-> q.job_dir, name |-> f.name,
                                                mtime |-> f.mtime]]]
    /\ UNCHANGED <<debug, fs, issued, urlVars, cmdVars, flatVars, fmtVars>>

\* Line 439: send_file opens the chosen file; a file that is gone raises.
Send(r) ==
    /\ req[r].pc = "sending"
    /\ LET q == req[r]
       IN  req' = [req EXCEPT ![r] =
                     IF \E f \in fs[q.file.dir].files : f.name = q.file.name
                     THEN [q EXCEPT !.pc = "finalizing", !.status = 200]
                     ELSE [q EXCEPT !.pc = "finalizing", !.status = 500,
                                    !.error = "unhandled"]]
    /\ UNCHANGED <<debug, fs, issued, urlVars, cmdVars, flatVars, fmtVars>>

\* Lines 427-430 and 448: the framework ends the request.  It runs the
\* after_this_request callbacks on the response it is about to send, also on
\* the response of an HTTPException or of an unhandled exception; with
\* debug on, an unhandled exception is re-raised instead and no callback runs.
Finalize(r) ==
    /\ req[r].pc = "finalizing"
    /\ LET q == req[r]
       IN  IF q.error = "unhandled" /\ debug
           THEN /\ req' = [req EXCEPT ![r].pc = "failed"]
                /\ UNCHANGED fs
           ELSE /\ req' = [req EXCEPT ![r].pc =
                              IF q.status = 200 THEN "completed" ELSE "failed"]
                /\ fs' = IF q.cleanup THEN [fs EXCEPT ![q.job_dir] = EmptyDir] ELSE fs
    /\ UNCHANGED <<debug, issued, urlVars, cmdVars, flatVars, fmtVars>>

(***************************************************************************)
(* Specification Spec: one request with every query and extractor answer   *)
(* of the model.  Specification SpecConcurrent: NumRequests valid requests *)
(* interleaved.                                                            *)
(***************************************************************************)
RequestUrls ==
    { GoodUrl, <<" ">> \o GoodUrl, <<>>,
      <<"https", "://", "evil", ".", "example", "/", "v">>,
      <<"https", "://", "youtube", ".", "com", ":", "pw", "@", "evil", ".", "example", "/", "v">> }

IndexRaws ==
    { <<>>, <<"x">>, <<"-1">> } \cup { <<ToString(n)>> : n \in 0..(MaxItems + 1) }

FormatIdRaws == { <<>>, <<"best">>, <<"22">>, <<" ", "137">>, <<"zz">> }

CertMessage == <<"ERROR", ":", " ", "[", "SSL", ":", " ", "CERTIFICATE_VERIFY_FAILED", "]", "\n">>
PlainMessage == <<"ERROR", ":", " ", "unsupported", " ", "url">>

\* What the extractor answers: success prints a document or something that
\* is no JSON, failure reports on stderr.
Succeeded(stdout) == [returncode |-> 0, stderr |-> <<>>, stdout |-> stdout]
Failed(stderr)    == [returncode |-> 1, stderr |-> stderr, stdout |-> <<>>]

MetaResults ==
    { Succeeded(<<"{doc}", k>>) : k \in DocKeys }
      \cup { Succeeded(<<"not json">>), Failed(CertMessage), Failed(PlainMessage) }

DownloadResults == { Succeeded(<<>>), Failed(CertMessage), Failed(PlainMessage) }

FileCatalogue ==
    { [name |-> <<"video", ".mp4">>, mtime |-> 2, is_file |-> TRUE],
      [name |-> <<"video", ".f140", ".m4a">>, mtime |-> 1, is_file |-> TRUE],
      [name |-> <<"video", ".f137", ".mp4">>, mtime |-> 2, is_file |-> TRUE],
      [name |-> <<"video", ".mp4", ".part">>, mtime |-> 3, is_file |-> TRUE],
      [name |-> <<"sub">>, mtime |-> 3, is_file |-> FALSE] }

InitDownload ==
    /\ debug \in BOOLEAN
    /\ req = [r \in Requests |-> NewRequest]
    /\ fs = [d \in Dirs |-> EmptyDir]
    /\ issued = {}
    /\ UrlIdle /\ CmdIdle /\ FlatIdle /\ FmtIdle

Next ==
    \E r \in {1} :
        \/ Receive(r, RequestUrls, IndexRaws, FormatIdRaws)
        \/ Fetch(r, MetaResults)
        \/ RunExtractor(r, DownloadResults, SUBSET FileCatalogue)
        \/ ExtractorCrash(r)
        \/ Locate(r)
        \/ Send(r)
        \/ Finalize(r)

Spec == InitDownload /\ [][Next]_vars

NextConcurrent ==
    \E r \in Requests :
        \/ Receive(r, {GoodUrl}, {<<>>}, {<<>>})
        \/ Fetch(r, { Succeeded(<<"{doc}", "single">>) })
        \/ RunExtractor(r, { Succeeded(<<>>) },
                        { {}, {f \in FileCatalogue : f.mtime >= 2} })
        \/ ExtractorCrash(r)
        \/ Locate(r)
        \/ Send(r)
        \/ Finalize(r)

SpecConcurrent == InitDownload /\ [][NextConcurrent]_vars

(***************************************************************************)
(* Properties of the pure operations                                       *)
(***************************************************************************)
\* Index of the last "@" of a netloc, 0 when there is none.
RECURSIVE LastAt(_, _)
LastAt(netloc, i) ==
    IF i = 0 THEN 0 ELSE IF netloc[i] = "@" THEN i ELSE LastAt(netloc, i - 1)

\* The host of an authority: what follows the userinfo and precedes the port.
AuthorityHost(netloc) ==
    Lower(SplitFirst(SubSeq(netloc, LastAt(netloc, Len(netloc)) + 1, Len(netloc)), ":"))

IsRootOrSubdomain(host, root) == host = root \/ EndsWith(host, <<".">> \o root)

ExpectedPlatform(u) ==
    LET parsed == UrlParse(Strip(u))
        host   == AuthorityHost(parsed.netloc)
        hits   == { i \in DOMAIN SUPPORTED_PLATFORMS :
                      \E d \in Range(SUPPORTED_PLATFORMS[i].domains) :
                          IsRootOrSubdomain(host, d) }
    IN  IF u = <<>> \/ ~parsed.ok \/ parsed.scheme \notin {"http", "https"} \/ hits = {}
        THEN None
        ELSE SUPPORTED_PLATFORMS[CHOOSE i \in hits : TRUE].platform

\* C6: detect_platform returns P exactly when the URL is a well-formed http(s)
\* URL whose host, lowercased and without its port, is one of P's root domains
\* or a subdomain of one; it returns none for every other URL.
C6_ClassifiesByHost == upc = "done" => platform = ExpectedPlatform(url)

\* The extractor outputs of the model that report a failed certificate check.
CertificateFailures ==
    { <<"ERROR", ":", " ", "[", "SSL", ":", " ", "CERTIFICATE_VERIFY_FAILED", "]", "\n">>,
      <<"certificate_verify_failed">>,
      <<"Unable", " ", "to", " ", "get", " ", "local", " ", "issuer", " ", "Certificate">> }

\* The failure message of a result: stderr, falling back to stdout.
ReportedMessage(result) == IF result.stderr # <<>> THEN result.stderr ELSE result.stdout

\* c without its elements equal to x
RECURSIVE Without(_, _)
Without(c, x) ==
    IF c = <<>> THEN <<>>
    ELSE (IF Head(c) = x THEN <<>> ELSE <<Head(c)>>) \o Without(Tail(c), x)

\* C2: one call invokes the extractor once or twice; twice exactly when the
\* first invocation exits non-zero with a certificate-verification failure
\* message; the second invocation is the same command with verification
\* disabled and its result is returned whatever it is; otherwise the first
\* result is returned.
C2_RetryOnceOnCertificateFailure ==
    cpc = "returned" =>
        LET first == calls[1].result
        IN  /\ Len(calls) \in {1, 2}
            /\ calls[1].cmd = cmd
            /\ Len(calls) = 2 <=>
                  (first.returncode # 0 /\ ReportedMessage(first) \in CertificateFailures)
            /\ Len(calls) = 2 =>
                  /\ NO_CHECK_CERTIFICATES \in Range(calls[2].cmd)
                  /\ NO_CHECK_CERTIFICATES \notin Range(cmd)
                  /\ Without(calls[2].cmd, NO_CHECK_CERTIFICATES) = cmd
                  /\ proc = calls[2].result
            /\ Len(calls) = 1 => proc = first

\* C2 witness: a retry was made and its failing result was returned.
C2_Witness ==
    /\ cpc = "returned"
    /\ Len(calls) = 2
    /\ proc.returncode # 0
    /\ ~is_certificate_verify_error(ReportedMessage(proc))

HasEmptyInner(e) == e # NoneItem /\ "entries" \in DOMAIN e /\ e.entries = <<>>

\* An entry that contributes nothing: empty or null, or holding a non-empty
\* inner list of empty or null items only.
Barren(e) ==
    \/ e = NoneItem
    \/ DOMAIN e = {}
    \/ /\ "entries" \in DOMAIN e
       /\ e.entries # <<>>
       /\ \A j \in DOMAIN e.entries : e.entries[j] = NoneItem \/ DOMAIN e.entries[j] = {}

DirectOf(root) == IF "entries" \in DOMAIN root THEN root.entries ELSE <<>>

\* C7 as stated: direct entries that all have empty inner lists flatten to
\* [root]; the result is never empty.
C7_EmptyInnerFallsBack ==
    lpc = "done" =>
        /\ flat # <<>>
        /\ ( /\ DirectOf(info) # <<>>
             /\ \A i \in DOMAIN DirectOf(info) : HasEmptyInner(DirectOf(info)[i]) )
           => flat = <<info>>

\* C7 amended: the result is never empty; it is [root] exactly when every
\* direct entry is barren; direct entries with empty inner lists are kept
\* as items themselves.
C7_FallbackWhenNothingContributed ==
    lpc = "done" =>
        /\ flat # <<>>
        /\ flat = <<info>> <=> (\A i \in DOMAIN DirectOf(info) : Barren(DirectOf(info)[i]))
        /\ ( /\ DirectOf(info) # <<>>
             /\ \A i \in DOMAIN DirectOf(info) : HasEmptyInner(DirectOf(info)[i]) )
           => flat = DirectOf(info)

\* C7 witnesses: the fallback taken on a nested structure, and entries with
\* empty inner lists flattened.
C7_Witness ==
    /\ lpc = "done"
    /\ Len(DirectOf(info)) = 2
    /\ \A i \in DOMAIN DirectOf(info) :
          "entries" \in DOMAIN DirectOf(info)[i] /\ Barren(DirectOf(info)[i])
    /\ flat = <<info>>

FormatsOf(it) == IF "formats" \in DOMAIN it THEN it.formats ELSE <<>>

\* The text of a raw format's identifier, "" when the key is missing.
RawId(f) == IF f # NoneItem /\ "format_id" \in DOMAIN f THEN f.format_id ELSE <<>>

OptionValues == { options[i].value : i \in DOMAIN options }

\* C3: no two options share a value; the keys of the selector map are the
\* emitted values, "best" among them; every other option comes from a raw
\* format whose identifier, stripped, is not empty.
C3_UniqueValuesAlignedMap ==
    fpc = "built" =>
        /\ \A i, j \in DOMAIN options : i # j => options[i].value # options[j].value
        /\ DOMAIN selector_map = OptionValues
        /\ BEST \in OptionValues
        /\ \A i \in DOMAIN options :
              /\ options[i].value # <<>>
              /\ ~IsSpace(options[i].value[1])
              /\ options[i].mode # "auto" =>
                    \E k \in DOMAIN FormatsOf(item) :
                        /\ RawId(FormatsOf(item)[k]) \notin { <<>>, <<" ">> }
                        /\ Strip(RawId(FormatsOf(item)[k])) = options[i].value

\* C3 witness: the item holds a video and an audio-only format under one
\* identifier, which is an option, and a format with an empty identifier.
C3_Witness ==
    /\ fpc = "built"
    /\ \E i, j \in DOMAIN FormatsOf(item) :
          LET f == FormatsOf(item)[i]
              g == FormatsOf(item)[j]
          IN  /\ i # j
              /\ RawId(f) # <<>> /\ RawId(f) = RawId(g)
              /\ "height" \in DOMAIN f /\ "height" \notin DOMAIN g
              /\ RawId(f) \in OptionValues
    /\ \E k \in DOMAIN FormatsOf(item) :
          LET f == FormatsOf(item)[k]
          IN  f # NoneItem /\ "format_id" \in DOMAIN f /\ f.format_id \in { <<>>, <<" ">> }

ModeRank(m) == CASE m = "auto" -> 0 [] m = "video" -> 1 [] m = "audio" -> 2

OptionsOfMode(m) == { i \in DOMAIN options : options[i].mode = m }

\* C4: "best" comes first, then at most 5 video options in strictly
\* descending height, then at most 5 audio options in non-increasing bitrate;
\* never more than 11 options.
C4_OrderedAndBounded ==
    fpc = "built" =>
        /\ Len(options) = Len(picked)
        /\ Len(options) >= 1 /\ Len(options) <= 11
        /\ options[1].value = BEST /\ options[1].mode = "auto"
        /\ OptionsOfMode("auto") = {1}
        /\ Cardinality(OptionsOfMode("video")) <= 5
        /\ Cardinality(OptionsOfMode("audio")) <= 5
        /\ \A i, j \in DOMAIN options :
              i < j => ModeRank(options[i].mode) <= ModeRank(options[j].mode)
        /\ \A i \in DOMAIN options :
              i > 1 => Strip(picked[i].format_id) = options[i].value
        /\ \A i, j \in OptionsOfMode("video") :
              i < j => picked[i].height > picked[j].height
        /\ \A i, j \in OptionsOfMode("audio") :
              i < j => Get(picked[i], "tbr", 0) >= Get(picked[j], "tbr", 0)

\* C4 witness: both limits cut candidates off and 11 options are emitted.
C4_Witness ==
    /\ fpc = "built"
    /\ Len(options) = 11
    /\ Cardinality({ Get(FormatsOf(item)[k], "height", 0) :
                        k \in DOMAIN FormatsOf(item) } \ {0}) > 5
    /\ Cardinality({ k \in DOMAIN FormatsOf(item) :
                        Get(FormatsOf(item)[k], "vcodec", "") = "none" }) > 5

HasAudio(f) == "acodec" \in DOMAIN f /\ f.acodec \notin {"", "none"}

ExtOf(f) == IF "ext" \in DOMAIN f THEN UpperToken(f.ext) ELSE ""

\* C8 as stated: with audio the label is exactly "Video {height}p"; without
\* audio and with a merge tool the selector is "{id}+bestaudio/best" and the
\* label "Video {height}p + audio"; without either the selector is the id and
\* the label "Video {height}p (video-only, {EXT})"; a parenthetical appears
\* only with the video-only qualifier.
C8_VideoLabelsAsStated ==
    fpc = "built" =>
        \A i \in OptionsOfMode("video") :
            LET f    == picked[i]
                id   == options[i].value
                base == <<"Video ", ToString(f.height), "p">>
            IN  /\ HasAudio(f) =>
                      selector_map[id] = id /\ options[i].label = base
                /\ (~HasAudio(f) /\ has_ffmpeg) =>
                      /\ selector_map[id] = id \o <<"+bestaudio/best">>
                      /\ options[i].label = base \o <<" + audio">>
                /\ (~HasAudio(f) /\ ~has_ffmpeg) =>
                      /\ selector_map[id] = id
                      /\ options[i].label =
                            base \o (IF ExtOf(f) # ""
                                     THEN <<" (", "video-only", ", ", ExtOf(f), ")">>
                                     ELSE <<" (", "video-only", ")">>)
                /\ " (" \in Range(options[i].label) => (~HasAudio(f) /\ ~has_ffmpeg)

\* C8 amended: selectors as stated; the label is "Video {height}p", plus
\* " + audio" when merged, plus a parenthetical that lists "video-only" when
\* the format has no audio and no merge tool exists and the uppercased
\* extension when the format has one; no parenthetical when neither applies.
C8_VideoLabelsWithExtension ==
    fpc = "built" =>
        \A i \in OptionsOfMode("video") :
            LET f     == picked[i]
                id    == options[i].value
                base  == <<"Video ", ToString(f.height), "p">>
                only  == ~HasAudio(f) /\ ~has_ffmpeg
                merge == ~HasAudio(f) /\ has_ffmpeg
                paren == CASE only /\ ExtOf(f) # "" ->
                                <<" (", "video-only", ", ", ExtOf(f), ")">>
                           [] only /\ ExtOf(f) = "" -> <<" (", "video-only", ")">>
                           [] ~only /\ ExtOf(f) # "" -> <<" (", ExtOf(f), ")">>
                           [] OTHER -> <<>>
            IN  /\ id = Strip(f.format_id)
                /\ selector_map[id] = IF merge THEN id \o <<"+bestaudio/best">> ELSE id
                /\ options[i].label =
                      base \o (IF merge THEN <<" + audio">> ELSE <<>>) \o paren
                /\ " (" \in Range(options[i].label) <=> (only \/ ExtOf(f) # "")

\* C8 witness: options of all three kinds are emitted, one of them a format
\* with audio and an extension.
C8_Witness ==
    /\ fpc = "built"
    /\ has_ffmpeg
    /\ \E i, j \in OptionsOfMode("video") :
          /\ HasAudio(picked[i]) /\ ExtOf(picked[i]) # ""
          /\ ~HasAudio(picked[j]) /\ ExtOf(picked[j]) = ""

(***************************************************************************)
(* Properties of the download request                                      *)
(***************************************************************************)
Terminal == {"completed", "failed"}

\* C1: no finished request, completed or failed, leaves its job directory
\* in existence.
C1_WorkspaceGoneAtEnd ==
    \A r \in Requests :
        (req[r].pc \in Terminal /\ req[r].job_dir # 0) => ~fs[req[r].job_dir].exists

\* What the query asks for, against the metadata the extractor returned.
SourceItems(q) == flatten_entries(q.info)

IndexOutOfRange(q) ==
    /\ q.info # NoneItem
    /\ q.index # -1
    /\ (q.index < 1 \/ q.index > Len(SourceItems(q)))

IndexMissing(q) == q.info # NoneItem /\ Len(SourceItems(q)) > 1 /\ q.index = -1

FormatUnknown(q) ==
    /\ q.info # NoneItem
    /\ ~IndexOutOfRange(q) /\ ~IndexMissing(q)
    /\ LET chosen == SourceItems(q)[IF q.index = -1 THEN 1 ELSE q.index]
           wanted == IF q.format_id = <<>> THEN BEST ELSE q.format_id
       IN  wanted \notin DOMAIN build_download_options(chosen, TRUE).selector_map

\* C5: a request with an unsupported URL, an out-of-range index, no index on
\* a multi-item source or an unknown format_id never gets a job directory,
\* never starts the download, and ends with status 400.
C5_InvalidQueriesRejected ==
    \A r \in Requests :
        LET q == req[r]
        IN  ( /\ q.pc # "created"
              /\ \/ ExpectedPlatform(q.url) = None
                 \/ IndexOutOfRange(q)
                 \/ IndexMissing(q)
                 \/ FormatUnknown(q) )
            => /\ q.job_dir = 0
               /\ q.proc = NoProc
               /\ q.pc \in Terminal => q.status = 400

\* The finished regular files of a directory.
FinishedFiles(d) ==
    { f \in fs[d].files : f.is_file /\ f.name[Len(f.name)] # ".part" }

\* C9: once the extractor has exited and the directory been scanned, a path
\* is returned exactly when the exit code is 0 and a finished regular file
\* exists; the path is such a file of the job directory with the greatest
\* modification time; otherwise the request failed with DownloaderError.
C9_NewestFinishedFileOrError ==
    \A r \in Requests :
        LET q == req[r]
        IN  /\ (q.proc # NoProc /\ q.pc \in {"sending", "finalizing"}) =>
                  IF q.proc.returncode = 0 /\ FinishedFiles(q.job_dir) # {}
                  THEN /\ q.file.dir = q.job_dir
                       /\ \E f \in FinishedFiles(q.job_dir) :
                             /\ f.name = q.file.name
                             /\ \A g \in FinishedFiles(q.job_dir) : g.mtime <= f.mtime
                  ELSE q.file = NoFile /\ q.error = "DownloaderError" /\ q.status = 400
            /\ q.file # NoFile => q.proc.returncode = 0

\* C9 witness: a file is chosen among several while a newer partial file and
\* a directory lie next to it.
C9_Witness ==
    \E r \in Requests :
        LET q == req[r]
        IN  /\ q.pc = "sending"
            /\ Cardinality(FinishedFiles(q.job_dir)) >= 3
            /\ \E f \in fs[q.job_dir].files :
                  f.name[Len(f.name)] = ".part" /\ f.mtime > q.file.mtime
            /\ \E f \in fs[q.job_dir].files : ~f.is_file

Working == {"running", "locating", "sending", "finalizing"}

\* C10: requests never share a job directory; while a request is at work
\* its directory exists, the file it returns is in its own directory, and
\* that file stays there until the request itself ends.
C10_WorkspacesIsolated ==
    /\ \A r1, r2 \in Requests :
          (r1 # r2 /\ req[r1].job_dir # 0) => req[r1].job_dir # req[r2].job_dir
    /\ \A r \in Requests :
          LET q == req[r]
          IN  /\ (q.job_dir # 0 /\ q.pc \in Working) => fs[q.job_dir].exists
              /\ q.file # NoFile => q.file.dir = q.job_dir
              /\ (q.file # NoFile /\ q.pc \in Working) =>
                    \E f \in fs[q.job_dir].files : f.name = q.file.name

\* C10 witness: one request has ended and removed its directory while
\* another holds the file it is about to send.
C10_Witness ==
    \E r1, r2 \in Requests :
        /\ r1 # r2
        /\ req[r1].pc \in Terminal /\ req[r1].job_dir # 0
        /\ ~fs[req[r1].job_dir].exists
        /\ req[r2].pc = "sending" /\ req[r2].file # NoFile

====
